---- MODULE Spec2Model ----
(***************************************************************************)
(* Emergency-room discrete-event simulation (src/Task_1.py).               *)
(*                                                                         *)
(* Time is counted in ticks of 0.1 minute, so the source's 30 is 300 and   *)
(* the triangular parameters 0.2/0.5/1.0 are 2/5/10.  A value of           *)
(* random.random() is counted in ten-thousandths (0..9999).                *)
(*                                                                         *)
(* The scheduler and the resources are simpy's: Environment.step pops the  *)
(* event with the least (time, priority, eid); Resource.request appends to *)
(* put_queue and tries the head of the queue once; Resource.release frees  *)
(* the unit at once and schedules a Release event whose callback tries the *)
(* head of put_queue once.                                                 *)
(*                                                                         *)
(* The Mersenne Twister is not computed: the stream random.seed(10) fixes  *)
(* is taken to be any sequence over the values listed per kind of draw.    *)
(* A service time is drawn at u = 0.5, and in a run of a single patient at *)
(* u = 0 and at the largest u as well; an interarrival time is drawn at    *)
(* u = 0 (0 minutes) or at the largest u (11 minutes), the first so that   *)
(* patients meet at the registration desk and the second so that a patient *)
(* among the first MaxPatients can arrive after time 30.                   *)
(***************************************************************************)
EXTENDS Integers, Naturals, Sequences, FiniteSets, TLC

VARIABLES
    calls,         \* number of run_simulation calls the caller makes
    num_patients,  \* argument of run_simulation, the same for every call
    run,           \* number of run_simulation calls the driver has completed
    phase,         \* "idle" | "running" | "crashed" | "finished"
    now,           \* env.now
    queue,         \* env._queue: set of scheduled events
    eid,           \* env._eid: next event id
    users,         \* resource -> sequence of requests holding a unit
    put_queue,     \* resource -> sequence of requests waiting
    gen,           \* the generate_patients process: [i, pc]
    proc,          \* patient id -> locals and position of its patient process
    stats,         \* stats["patients"]
    rng,           \* number of random() values consumed since random.seed
    stream,        \* the values the seeded generator yields, as far as drawn
    log,           \* history of this run: requests, grants and releases,
                   \* interarrival times drawn and patients spawned
    error,         \* the exception that ended the driver, or "none"
    csv,           \* rows handed to save_statistics, one per completed run
    results,       \* the dict results of the last calc_statistics call
    past           \* history: [stats, log] of each completed run

vars == <<calls, num_patients, run, phase, now, queue, eid, users, put_queue, gen,
          proc, stats, rng, stream, log, error, csv, results, past>>

---------------------------------------------------------------------------
(* Bounds of the model *)

MaxPatients == 3

(* Program constants *)

Runs == 2                \* for i in range(0, 2)
DoctorsArrive == 300     \* if env.now < 30
URGENT == 0              \* simpy priority of Initialize events
NORMAL == 1              \* simpy priority of every other event

Resources == {"registration", "cw1", "cw2", "x_ray", "plaster"}

\* every resource with two units
capacity_two == [r \in Resources |-> 2]

capacity ==
    [r \in Resources |->
        CASE r = "registration" -> 1
          [] r = "cw1" -> 2
          [] r = "cw2" -> 2
          [] r = "x_ray" -> 2
          [] r = "plaster" -> 1]

---------------------------------------------------------------------------
(* The random source.  UMax stands for the largest value random.random()   *)
(* returns, 1 - 2^-53.                                                     *)

UMax == 9999

GapDraws == {0, UMax}
TypeDraws == {0, 5000, 5625, 7500}
WardDraws == {0, 7500}
ServiceDraws == {5000}
SoloServiceDraws == {0, 5000, UMax}

\* floor of the square root
ISqrt(n) == CHOOSE r \in 0..n : r * r <= n /\ (r + 1) * (r + 1) > n

\* -ln(1 - u) in hundredths, tabulated on the values random() takes here
NegLog(u) ==
    CASE u = 0 -> 0
      [] u = 5000 -> 69
      [] u = 5625 -> 83
      [] u = 7500 -> 139
      [] u = UMax -> 3674

\* random.expovariate(lambd) with 1/lambd = mean, in ticks
expovariate(u, mean) == (mean * NegLog(u)) \div 100

\* random.triangular(low, high, mode) of the standard library
random_triangular(u, low, high, mode) ==
    IF high = low THEN low
    ELSE IF u * (high - low) > 10000 * (mode - low)
         THEN high - ISqrt(((10000 - u) * (high - low) * (high - mode)) \div 10000)
         ELSE low + ISqrt((u * (high - low) * (mode - low)) \div 10000)

\* the wrapper hands (minimum, mode, maximum) on positionally
triangular_dist(u, minimum, mode, maximum) ==
    random_triangular(u, minimum, mode, maximum)

\* random.choices([1, 2, 3, 4], weights=[35, 20, 5, 40]): bisect on the
\* cumulative weights 35, 55, 60 of the first three outcomes
choices(u) == 1 + Cardinality({c \in {3500, 5500, 6000} : c <= u})

\* cw1 if random.random() < 0.6 else cw2
choose_ward(u) == IF u < 6000 THEN "cw1" ELSE "cw2"

get_cw_time(u, casualty_ward) ==
    IF casualty_ward = "cw1" THEN triangular_dist(u, 15, 32, 50)
    ELSE IF casualty_ward = "cw2" THEN triangular_dist(u, 28, 41, 63)
    ELSE 0

---------------------------------------------------------------------------
(* The stream of random() values.  random.seed(10) fixes the stream; the   *)
(* model reveals it value by value, the first time a position is drawn,    *)
(* and replays the revealed value when the position is drawn again after a *)
(* reseed.                                                                 *)

\* the values the k-th draw of the current step can return
Fresh(k, levels) ==
    IF rng + k <= Len(stream) THEN {stream[rng + k]} ELSE levels

\* the stream after the current step drew the values us
Drawn(us) ==
    IF rng + Len(us) <= Len(stream) THEN stream
    ELSE SubSeq(stream, 1, rng) \o us

\* run_simulation without random.seed: the generator goes on in its stream
seed_missing(position) == position

\* random.seed(10): the generator restarts its stream, wherever it was
seed(position) == 0

---------------------------------------------------------------------------
(* simpy.Environment and simpy.Resource.  An operator takes and returns    *)
(* the record s = [now, queue, eid, users, put_queue, log] so that the calls of *)
(* one resumption compose in program order.                                *)

GEN == -1      \* process id of generate_patients; patients are 0, 1, ...

Sim == [now |-> now, queue |-> queue, eid |-> eid, users |-> users,
        put_queue |-> put_queue, log |-> log]

Event(time, prio, id, kind, who, stage, res) ==
    [time |-> time, prio |-> prio, eid |-> id, kind |-> kind,
     who |-> who, stage |-> stage, res |-> res]

\* Environment.schedule: heappush((now + delay, priority, next(eid), event))
schedule(s, prio, delay, kind, who, stage, res) ==
    [s EXCEPT !.queue = @ \cup {Event(s.now + delay, prio, s.eid, kind, who, stage, res)},
              !.eid = @ + 1]

\* the order of time and sequence number alone
Before_fifo(e, f) ==
    \/ e.time < f.time
    \/ e.time = f.time /\ e.eid < f.eid

\* heap order of env._queue
Before(e, f) ==
    \/ e.time < f.time
    \/ e.time = f.time /\ e.prio < f.prio
    \/ e.time = f.time /\ e.prio = f.prio /\ e.eid < f.eid

\* the last event of the heap order instead of the first
NextEvent_latest == CHOOSE e \in queue : \A f \in queue \ {e} : Before(f, e)

\* the event Environment.step pops
NextEvent == CHOOSE e \in queue : \A f \in queue \ {e} : Before(e, f)

Req(who, stage) == [who |-> who, stage |-> stage]

Entry(op, rq, res, t) ==
    [op |-> op, who |-> rq.who, stage |-> rq.stage, res |-> res, t |-> t]

\* do_put without the comparison with the capacity
do_put_unchecked(s, res, rq) ==
    LET g == [s EXCEPT !.users[res] = Append(@, rq),
                       !.log = Append(@, Entry("grant", rq, res, s.now))]
    IN  schedule(g, NORMAL, 0, "Request", rq.who, rq.stage, res)

\* Resource._do_put: grant a unit if one is free
do_put(s, res, rq) ==
    IF Len(s.users[res]) < capacity[res]
    THEN LET g == [s EXCEPT !.users[res] = Append(@, rq),
                            !.log = Append(@, Entry("grant", rq, res, s.now))]
         IN  schedule(g, NORMAL, 0, "Request", rq.who, rq.stage, res)
    ELSE s

\* trigger_put serving the newest waiter instead of the oldest
trigger_put_newest(s, res) ==
    IF s.put_queue[res] = <<>> THEN s
    ELSE LET n == Len(s.put_queue[res])
             g == do_put(s, res, s.put_queue[res][n])
         IN  IF Len(g.users[res]) > Len(s.users[res])
             THEN [g EXCEPT !.put_queue[res] = SubSeq(@, 1, n - 1)]
             ELSE g

\* release that leaves the request among the users
release_keeps(s, res, rq) ==
    schedule([s EXCEPT !.log = Append(@, Entry("release", rq, res, s.now))],
             NORMAL, 0, "Release", rq.who, rq.stage, res)

\* BaseResource._trigger_put: _do_put on the head of put_queue, which leaves
\* the queue when granted; _do_put returns None, so the loop stops there
trigger_put(s, res) ==
    IF s.put_queue[res] = <<>> THEN s
    ELSE LET rq == Head(s.put_queue[res])
             g == do_put(s, res, rq)
         IN  IF Len(g.users[res]) > Len(s.users[res])
             THEN [g EXCEPT !.put_queue[res] = Tail(@)]
             ELSE g

\* resource.request(): Put.__init__ appends to put_queue and triggers
request(s, res, rq) ==
    trigger_put([s EXCEPT !.put_queue[res] = Append(@, rq),
                          !.log = Append(@, Entry("request", rq, res, s.now))], res)

\* users.remove(request) of a list: the first occurrence, if any
RemoveFirst(seq, x) ==
    IF \E i \in 1..Len(seq) : seq[i] = x
    THEN LET i == CHOOSE j \in 1..Len(seq) :
                      seq[j] = x /\ \A k \in 1..(j - 1) : seq[k] # x
         IN  SubSeq(seq, 1, i - 1) \o SubSeq(seq, i + 1, Len(seq))
    ELSE seq

\* release that takes every request off the users
release_all(s, res, rq) ==
    LET g == [s EXCEPT !.users[res] = <<>>,
                       !.log = Append(@, Entry("release", rq, res, s.now))]
    IN  schedule(g, NORMAL, 0, "Release", rq.who, rq.stage, res)

\* Request.__exit__ -> resource.release(request): _do_get removes the request
\* from users and succeeds the Release event, scheduled at the current time
release(s, res, rq) ==
    LET g == [s EXCEPT !.users[res] = RemoveFirst(@, rq),
                       !.log = Append(@, Entry("release", rq, res, s.now))]
    IN  schedule(g, NORMAL, 0, "Release", rq.who, rq.stage, res)

\* history: the generator drew the interarrival time delay
gap(s, delay) ==
    [s EXCEPT !.log = Append(@, Entry("gap", Req(GEN, "none"), "none", delay))]

\* history: the generator spawned patient i
spawn(s, i) ==
    [s EXCEPT !.log = Append(@, Entry("spawn", Req(i, "none"), "none", s.now))]

\* a timeout whose argument is taken as the time to wake at
timeout_at(s, delay, who, stage) ==
    schedule(s, NORMAL, delay - s.now, "Timeout", who, stage, "none")

\* env.timeout(delay)
timeout(s, delay, who, stage) ==
    schedule(s, NORMAL, delay, "Timeout", who, stage, "none")

\* env.process(generator): the Initialize event is scheduled URGENT
process(s, who) ==
    schedule(s, URGENT, 0, "Initialize", who, "none", "none")

\* a generator returns: Process._resume schedules the Process event
process_ends(s, who) ==
    schedule(s, NORMAL, 0, "Process", who, "none", "none")

\* Environment.step: pop the event and set the clock to its time; the
\* event's callbacks then run on the result
pop(s, e) == [s EXCEPT !.queue = @ \ {e}, !.now = e.time]

\* the environment and the resources after the step
Commit(s) ==
    \E v \in {s} :
        /\ now' = v.now
        /\ queue' = v.queue
        /\ eid' = v.eid
        /\ users' = v.users
        /\ put_queue' = v.put_queue
        /\ log' = v.log

---------------------------------------------------------------------------
(* The patient process: one `with resource.request()` block per stage.     *)

Stages == {"registration", "cw", "t1_x_ray", "t1_cw", "t2_plaster",
           "t3_x_ray", "t3_plaster", "t3_x_ray2", "t3_cw"}

\* the resource a stage's with-block requests
StageResource(stage, casualty_ward) ==
    CASE stage = "registration" -> "registration"
      [] stage \in {"cw", "t1_cw", "t3_cw"} -> casualty_ward
      [] stage \in {"t1_x_ray", "t3_x_ray", "t3_x_ray2"} -> "x_ray"
      [] stage \in {"t2_plaster", "t3_plaster"} -> "plaster"

\* the time drawn inside a stage's with-block
ServiceTime(u, stage, casualty_ward) ==
    CASE stage = "registration" -> triangular_dist(u, 2, 5, 10)
      [] stage \in {"cw", "t1_cw", "t3_cw"} -> get_cw_time(u, casualty_ward)
      [] stage \in {"t1_x_ray", "t3_x_ray", "t3_x_ray2"} -> triangular_dist(u, 20, 28, 41)
      [] stage \in {"t2_plaster", "t3_plaster"} -> triangular_dist(u, 30, 38, 47)

\* AfterStage of a type 1 that leaves after the X-ray
AfterStage_no_return(stage, patient_type) ==
    CASE stage = "cw" ->
             IF patient_type = 1 THEN "t1_x_ray"
             ELSE IF patient_type = 2 THEN "t2_plaster"
             ELSE IF patient_type = 3 THEN "t3_x_ray"
             ELSE "exit"
      [] stage = "t1_x_ray" -> "exit"
      [] stage = "t1_cw" -> "exit"
      [] stage = "t2_plaster" -> "exit"
      [] stage = "t3_x_ray" -> "t3_plaster"
      [] stage = "t3_plaster" -> "t3_x_ray2"
      [] stage = "t3_x_ray2" -> "t3_cw"
      [] stage = "t3_cw" -> "exit"

\* the with-block that follows a ward or later stage; "exit" when none does
AfterStage(stage, patient_type) ==
    CASE stage = "cw" ->
             IF patient_type = 1 THEN "t1_x_ray"
             ELSE IF patient_type = 2 THEN "t2_plaster"
             ELSE IF patient_type = 3 THEN "t3_x_ray"
             ELSE "exit"
      [] stage = "t1_x_ray" -> "t1_cw"
      [] stage = "t1_cw" -> "exit"
      [] stage = "t2_plaster" -> "exit"
      [] stage = "t3_x_ray" -> "t3_plaster"
      [] stage = "t3_plaster" -> "t3_x_ray2"
      [] stage = "t3_x_ray2" -> "t3_cw"
      [] stage = "t3_cw" -> "exit"

\* a record with the patient's type where its id belongs
PatientRecord_type_as_id(p, departure_time) ==
    [id |-> proc[p].patient_type, type |-> proc[p].patient_type,
     total_time |-> departure_time - proc[p].arrival_time]

\* a record whose total time is the departure time
PatientRecord_no_arrival(p, departure_time) ==
    [id |-> p, type |-> proc[p].patient_type, total_time |-> departure_time]

\* departure_time = env.now; total_time = departure_time - arrival_time
PatientRecord(p, departure_time) ==
    [id |-> p, type |-> proc[p].patient_type,
     total_time |-> departure_time - proc[p].arrival_time]

Running == phase = "running" /\ queue # {}

EnvVars == <<calls, num_patients, run, phase, error, csv, results, past>>

\* patient(): from the start to `yield req` of the registration block
PatientArrives(p) ==
    /\ Running
    /\ \E e \in {NextEvent} :
          /\ e.kind = "Initialize" /\ e.who = p
          /\ proc[p].pc = "start"
          /\ \E s0 \in {pop(Sim, e)} :
                /\ Commit(request(s0, "registration", Req(p, "registration")))
                /\ proc' = [proc EXCEPT ![p].arrival_time = s0.now,
                                        ![p].stage = "registration",
                                        ![p].pc = "req"]
    /\ UNCHANGED <<EnvVars, gen, stats, rng, stream>>

\* the values a service-time draw takes: the middle one, and the extremes
\* as well in a run of a single patient
ServiceLevels == IF num_patients = 1 THEN SoloServiceDraws ELSE ServiceDraws

\* patient(): a request is granted; draw the service time and hold
PatientGranted(p) ==
    /\ Running
    /\ \E e \in {NextEvent} :
          /\ e.kind = "Request" /\ e.who = p
          /\ proc[p].pc = "req"
          /\ \E s0 \in {pop(Sim, e)} : \E u \in Fresh(1, ServiceLevels) :
                /\ Commit(timeout(s0,
                                  ServiceTime(u, proc[p].stage, proc[p].casualty_ward),
                                  p, proc[p].stage))
                /\ rng' = rng + 1
                /\ stream' = Drawn(<<u>>)
    /\ proc' = [proc EXCEPT ![p].pc = "hold"]
    /\ UNCHANGED <<EnvVars, gen, stats>>

\* yield env.timeout(30), whatever the clock
DoctorsDelay_fixed(t) == DoctorsArrive

\* yield env.timeout(30 - env.now)
DoctorsDelay(t) == DoctorsArrive - t

\* patient(): the rest of the body after the registration block
AfterRegistration(p, s1) ==
    \E u \in Fresh(1, WardDraws) : \E casualty_ward \in {choose_ward(u)} :
        /\ rng' = rng + 1
        /\ stream' = Drawn(<<u>>)
        /\ stats' = stats
        /\ IF s1.now < DoctorsArrive
           THEN /\ Commit(timeout(s1, DoctorsDelay(s1.now), p, "registration"))
                /\ proc' = [proc EXCEPT ![p].casualty_ward = casualty_ward,
                                        ![p].pc = "doctors"]
           ELSE /\ Commit(request(s1, casualty_ward, Req(p, "cw")))
                /\ proc' = [proc EXCEPT ![p].casualty_ward = casualty_ward,
                                        ![p].stage = "cw",
                                        ![p].pc = "req"]

\* patient(): the rest of the body after the with-block of a later stage
AfterTreatment(p, s1, next) ==
    /\ UNCHANGED <<rng, stream>>
    /\ IF next = "exit"
       THEN /\ stats' = Append(stats, PatientRecord(p, s1.now))
            /\ Commit(process_ends(s1, p))
            /\ proc' = [proc EXCEPT ![p].pc = "done"]
       ELSE /\ stats' = stats
            /\ Commit(request(s1, StageResource(next, proc[p].casualty_ward),
                              Req(p, next)))
            /\ proc' = [proc EXCEPT ![p].stage = next, ![p].pc = "req"]

\* patient(): the service time is over; leave the with-block, which
\* releases the unit, and run to the next yield or to the end
PatientLeaves(p) ==
    /\ Running
    /\ \E e \in {NextEvent} :
          /\ e.kind = "Timeout" /\ e.who = p
          /\ proc[p].pc = "hold"
          /\ \E stage \in {proc[p].stage} :
             \E s0 \in {pop(Sim, e)} :
             \E s1 \in {release(s0, StageResource(stage, proc[p].casualty_ward),
                                Req(p, stage))} :
                IF stage = "registration"
                THEN AfterRegistration(p, s1)
                ELSE AfterTreatment(p, s1, AfterStage(stage, proc[p].patient_type))
    /\ UNCHANGED <<EnvVars, gen>>

\* patient(): the wait for the doctors is over; request the ward
PatientDoctorsArrive(p) ==
    /\ Running
    /\ \E e \in {NextEvent} :
          /\ e.kind = "Timeout" /\ e.who = p
          /\ proc[p].pc = "doctors"
          /\ \E s0 \in {pop(Sim, e)} :
                Commit(request(s0, proc[p].casualty_ward, Req(p, "cw")))
    /\ proc' = [proc EXCEPT ![p].stage = "cw", ![p].pc = "req"]
    /\ UNCHANGED <<EnvVars, gen, stats, rng, stream>>

NewPatient(patient_type) ==
    [patient_type |-> patient_type, arrival_time |-> 0,
     casualty_ward |-> "none", stage |-> "none", pc |-> "start"]

\* generate_patients(): from its start to the first timeout, or to its end
\* when num_patients = 0
GeneratorStarts ==
    /\ Running
    /\ \E e \in {NextEvent} :
          /\ e.kind = "Initialize" /\ e.who = GEN
          /\ gen.pc = "start"
          /\ \E s0 \in {pop(Sim, e)} :
                IF gen.i < num_patients
                THEN \E u \in Fresh(1, GapDraws) :
                        /\ \E d \in {expovariate(u, 3)} :
                              Commit(timeout(gap(s0, d), d, GEN, "none"))
                        /\ rng' = rng + 1
                        /\ stream' = Drawn(<<u>>)
                        /\ gen' = [gen EXCEPT !.pc = "timeout"]
                ELSE /\ Commit(process_ends(s0, GEN))
                     /\ gen' = [gen EXCEPT !.pc = "done"]
                     /\ UNCHANGED <<rng, stream>>
    /\ UNCHANGED <<EnvVars, proc, stats>>

\* generate_patients(): the interarrival time is over; draw the type, spawn
\* patient i, and go round the loop to the next timeout or to the end
GeneratorSpawns ==
    /\ Running
    /\ \E e \in {NextEvent} :
          /\ e.kind = "Timeout" /\ e.who = GEN
          /\ gen.pc = "timeout"
          /\ \E t \in Fresh(1, TypeDraws) :
             \E i \in {gen.i} :
             \E s0 \in {pop(Sim, e)} :
             \E s1 \in {process(spawn(s0, i), i)} :
                /\ proc' = (i :> NewPatient(choices(t))) @@ proc
                /\ IF i + 1 < num_patients
                   THEN \E u \in Fresh(2, GapDraws) :
                           /\ \E d \in {expovariate(u, 3)} :
                                 Commit(timeout(gap(s1, d), d, GEN, "none"))
                           /\ rng' = rng + 2
                           /\ stream' = Drawn(<<t, u>>)
                           /\ gen' = [i |-> i + 1, pc |-> "timeout"]
                   ELSE /\ Commit(process_ends(s1, GEN))
                        /\ rng' = rng + 1
                        /\ stream' = Drawn(<<t>>)
                        /\ gen' = [i |-> i + 1, pc |-> "done"]
    /\ UNCHANGED <<EnvVars, stats>>

\* a Release event is popped: its callback is Resource._trigger_put
ReleaseProcessed ==
    /\ Running
    /\ \E e \in {NextEvent} :
          /\ e.kind = "Release"
          /\ \E s0 \in {pop(Sim, e)} : Commit(trigger_put(s0, e.res))
    /\ UNCHANGED <<EnvVars, gen, proc, stats, rng, stream>>

\* the Process event of a finished generator is popped: it has no callbacks
ProcessProcessed ==
    /\ Running
    /\ \E e \in {NextEvent} :
          /\ e.kind = "Process"
          /\ Commit(pop(Sim, e))
    /\ UNCHANGED <<EnvVars, gen, proc, stats, rng, stream>>

---------------------------------------------------------------------------
(* Statistics.  A float quotient a / b is kept exact as [num, den].        *)

RECURSIVE Sum(_)
Sum(seq) == IF seq = <<>> THEN 0 ELSE Head(seq) + Sum(Tail(seq))

RECURSIVE TimesOfType(_, _)
\* types[t]: the total times of the records of type t, in record order
TimesOfType(records, t) ==
    IF records = <<>> THEN <<>>
    ELSE LET rest == TimesOfType(Tail(records), t)
         IN  IF Head(records).type = t
             THEN <<Head(records).total_time>> \o rest
             ELSE rest

Quotient(a, b) == [num |-> a, den |-> b]

\* the average of a type taken over the records of all types
TypeResult_over_all(records, t) ==
    LET times == TimesOfType(records, t)
    IN  IF times # <<>>
        THEN [count |-> Len(times), avg_time |-> Quotient(Sum(times), Len(records))]
        ELSE [count |-> 0, avg_time |-> Quotient(0, 1)]

\* results["types"][t]
TypeResult(records, t) ==
    LET times == TimesOfType(records, t)
    IN  IF times # <<>>
        THEN [count |-> Len(times), avg_time |-> Quotient(Sum(times), Len(times))]
        ELSE [count |-> 0, avg_time |-> Quotient(0, 1)]

\* sum(squared_differences) with overall_avg_time = total / n, times n * n
SquaredDifferences(all_times) ==
    LET n == Len(all_times)
        total == Sum(all_times)
    IN  Sum([i \in 1..n |-> (n * all_times[i] - total) * (n * all_times[i] - total)])

\* the divisions of calc_statistics that raise ZeroDivisionError
ZeroDivision(records) ==
    \/ Len(records) = 0          \* sum(all_times) / total_patients
    \/ Len(records) - 1 = 0      \* sum(squared_differences) / (total_patients - 1)

\* the standard deviation with the divisor total_patients
calc_statistics_population(records) ==
    LET total_patients == Len(records)
        all_times == [i \in 1..total_patients |-> records[i].total_time]
        variance == Quotient(SquaredDifferences(all_times),
                             total_patients * total_patients * total_patients)
    IN  [overall_avg_time |-> Quotient(Sum(all_times), total_patients),
         variance |-> variance,
         standard_deviation |-> ISqrt(variance.num \div variance.den),
         types |-> [t \in 1..4 |-> TypeResult(records, t)]]

calc_statistics(records) ==
    LET total_patients == Len(records)
        all_times == [i \in 1..total_patients |-> records[i].total_time]
        variance == Quotient(SquaredDifferences(all_times),
                             total_patients * total_patients * (total_patients - 1))
    IN  [overall_avg_time |-> Quotient(Sum(all_times), total_patients),
         variance |-> variance,
         standard_deviation |-> ISqrt(variance.num \div variance.den),
         types |-> [t \in 1..4 |-> TypeResult(records, t)]]

\* results = {"overall_avg_time": 0, "standard_deviation": 0, "types": {}}
NoResults ==
    [overall_avg_time |-> Quotient(0, 1), variance |-> Quotient(0, 1),
     standard_deviation |-> 0, types |-> <<>>]

\* the dict results as calc_statistics has filled it in when a division
\* raises: the types always, the overall average unless its division raised
results_at_raise(records) ==
    [NoResults EXCEPT
        !.types = [t \in 1..4 |-> TypeResult(records, t)],
        !.overall_avg_time =
            IF Len(records) = 0 THEN @
            ELSE Quotient(Sum([i \in 1..Len(records) |-> records[i].total_time]),
                          Len(records))]

\* f"{x:.2f}" of a time, in hundredths of a minute
Format(q) == (20 * q.num + q.den) \div (2 * q.den)

\* the row save_statistics writes
Row(r) ==
    <<Format(r.overall_avg_time), 10 * r.standard_deviation,
      r.types[1].count, Format(r.types[1].avg_time),
      r.types[2].count, Format(r.types[2].avg_time),
      r.types[3].count, Format(r.types[3].avg_time),
      r.types[4].count, Format(r.types[4].avg_time)>>

---------------------------------------------------------------------------
(* The driver and run_simulation *)

Idle == [r \in Resources |-> <<>>]

\* run_simulation() up to env.run(): a new environment, the reseeded random
\* source, new resources, empty statistics and the generator process
RunSimulation ==
    /\ phase = "idle"
    /\ run < calls
    /\ phase' = "running"
    /\ rng' = seed(rng)
    /\ Commit(process([now |-> 0, queue |-> {}, eid |-> 0, users |-> Idle,
                       put_queue |-> Idle, log |-> <<>>], GEN))
    /\ gen' = [i |-> 0, pc |-> "start"]
    /\ proc' = <<>>
    /\ stats' = <<>>
    /\ UNCHANGED <<calls, num_patients, run, error, csv, results, past, stream>>

\* env.run() has returned; calc_statistics and save_statistics succeed and
\* the driver goes round its loop
RunCompletes ==
    /\ phase = "running"
    /\ queue = {}
    /\ ~ZeroDivision(stats)
    /\ \E r \in {calc_statistics(stats)} :
          /\ results' = r
          /\ csv' = Append(csv, Row(r))
    /\ past' = Append(past, [stats |-> stats, log |-> log])
    /\ run' = run + 1
    /\ phase' = IF run + 1 < calls THEN "idle" ELSE "finished"
    /\ UNCHANGED <<calls, num_patients, error, now, queue, eid, users, put_queue,
                   gen, proc, stats, rng, stream, log>>

\* env.run() has returned; calc_statistics raises ZeroDivisionError, which
\* nothing catches
RunFails ==
    /\ phase = "running"
    /\ queue = {}
    /\ ZeroDivision(stats)
    /\ error' = "ZeroDivisionError"
    /\ phase' = "crashed"
    /\ results' = results_at_raise(stats)
    /\ UNCHANGED <<calls, num_patients, run, csv, past, now, queue, eid, users,
                   put_queue, gen, proc, stats, rng, stream, log>>

Patients == 0..(MaxPatients - 1)

\* the state before the first call, whatever the number of calls
Start ==
    /\ num_patients \in 0..MaxPatients
    /\ run = 0
    /\ phase = "idle"
    /\ error = "none"
    /\ now = 0
    /\ queue = {}
    /\ eid = 0
    /\ users = Idle
    /\ put_queue = Idle
    /\ gen = [i |-> 0, pc |-> "start"]
    /\ proc = <<>>
    /\ stats = <<>>
    /\ rng = 0
    /\ stream = <<>>
    /\ log = <<>>
    /\ csv = <<>>
    /\ results = NoResults
    /\ past = <<>>

\* one call of run_simulation
Init == calls = 1 /\ Start

\* the driver: for i in range(0, 2): run_simulation()
DriverInit == calls = Runs /\ Start

\* Environment.step: pop the next event and run its callbacks
Step ==
    \/ GeneratorStarts
    \/ GeneratorSpawns
    \/ \E p \in Patients : PatientArrives(p)
    \/ \E p \in Patients : PatientGranted(p)
    \/ \E p \in Patients : PatientLeaves(p)
    \/ \E p \in Patients : PatientDoctorsArrive(p)
    \/ ReleaseProcessed
    \/ ProcessProcessed

Next ==
    \/ RunSimulation
    \/ Step
    \/ RunCompletes
    \/ RunFails

Spec == Init /\ [][Next]_vars

\* total times of 10, 20 and 30 minutes
StatTimes == {100, 200, 300}

\* the collections of up to MaxPatients records, of any types, with these
\* total times; the record at place i is that of patient i - 1
Collections ==
    UNION {{[i \in 1..n |-> [id |-> i - 1, type |-> f[i][1], total_time |-> f[i][2]]] :
                f \in [1..n -> (1..4) \X StatTimes]} : n \in 0..MaxPatients}

\* env.run() has returned and left some collection of records
StatsInit ==
    /\ stats \in Collections
    /\ num_patients = Len(stats)
    /\ calls = 1
    /\ run = 0
    /\ phase = "running"
    /\ error = "none"
    /\ now = 0
    /\ queue = {}
    /\ eid = 0
    /\ users = Idle
    /\ put_queue = Idle
    /\ gen = [i |-> Len(stats), pc |-> "done"]
    /\ proc = <<>>
    /\ rng = 0
    /\ stream = <<>>
    /\ log = <<>>
    /\ csv = <<>>
    /\ results = NoResults
    /\ past = <<>>

\* calc_statistics(stats) and save_statistics(results)
StatsNext ==
    \/ RunCompletes
    \/ RunFails

\* calc_statistics on every collection of records
StatsSpec == StatsInit /\ [][StatsNext]_vars

DriverSpec == DriverInit /\ [][Next]_vars

---------------------------------------------------------------------------
(* Readings of the log *)

\* the entries of the log with operation op on resource r, in log order
Ops(op, r) == SelectSeq(log, LAMBDA e : e.op = op /\ e.res = r)

\* the request an entry is about
RqOf(e) == Req(e.who, e.stage)

\* the positions of the log with operation op of request rq
At(op, rq) == {i \in 1..Len(log) : log[i].op = op /\ RqOf(log[i]) = rq}

\* the places <<r, i>> of a resource -> sequence of requests that are p's
Places(f, p) ==
    UNION {{<<r, i>> : i \in {j \in 1..Len(f[r]) : f[r][j].who = p}} : r \in Resources}

\* the units patient p holds, over all resources
Held(p) == Places(users, p)

\* the queue places patient p has, over all resources
Waiting(p) == Places(put_queue, p)

\* the resources patient p has been granted, in the order of the grants
Acquired(p) ==
    LET gs == SelectSeq(log, LAMBDA e : e.op = "grant" /\ e.who = p)
    IN  [i \in 1..Len(gs) |-> gs[i].res]

IsPrefix(a, b) == Len(a) <= Len(b) /\ a = SubSeq(b, 1, Len(a))

---------------------------------------------------------------------------
(* C1: in every reachable state no resource has more holders than its      *)
(* capacity: registration <= 1, casualty ward 1 <= 2, casualty ward 2 <= 2,*)
(* X-ray <= 2, plaster <= 1.                                               *)
HeldWithinCapacity ==
    /\ Len(users["registration"]) <= 1
    /\ Len(users["cw1"]) <= 2
    /\ Len(users["cw2"]) <= 2
    /\ Len(users["x_ray"]) <= 2
    /\ Len(users["plaster"]) <= 1

\* a ward is full while another patient waits for it
WardFullWithWaiter ==
    \E r \in {"cw1", "cw2"} : Len(users[r]) = 2 /\ put_queue[r] # <<>>

(* C2: on every resource the units are granted in the order of the         *)
(* requests: the grants so far are, one for one, the first requests.       *)
GrantsInRequestOrder ==
    \A r \in Resources :
        LET rs == Ops("request", r)
            gs == Ops("grant", r)
        IN  /\ Len(gs) <= Len(rs)
            /\ \A i \in 1..Len(gs) : RqOf(gs[i]) = RqOf(rs[i]) /\ gs[i].t >= rs[i].t

\* two requests of one timestamp on a resource, the second of which waited
\* and has been granted
SameTimeRequestsGranted ==
    \E r \in Resources :
        LET rs == Ops("request", r)
            gs == Ops("grant", r)
        IN  \E i \in 1..Len(gs) :
                /\ i > 1
                /\ rs[i].t = rs[i - 1].t
                /\ gs[i].t > rs[i].t

---------------------------------------------------------------------------
(* env.run() calls Environment.step for as long as an event is scheduled:  *)
(* a step that can be taken is not put off for ever.                       *)
FairSpec == Spec /\ WF_vars(Step)

\* patient p is at `yield req`, waiting for its request to be granted
AtRequest(p) == p \in DOMAIN proc /\ proc[p].pc = "req"

\* patient p has resumed from `yield req` and holds the unit of its stage
Resumed(p) ==
    /\ p \in DOMAIN proc
    /\ proc[p].pc = "hold"
    /\ Req(p, proc[p].stage) \in {users[r][i] : <<r, i>> \in Held(p)}

(* C3: a patient that has issued a request on a resource is eventually     *)
(* granted a unit and resumes.                                             *)
EveryRequestGranted ==
    \A p \in Patients : AtRequest(p) ~> Resumed(p)

\* a patient has resumed from a request for which it had to queue
QueuedRequestResumed ==
    \E p \in DOMAIN proc :
        /\ proc[p].pc = "hold"
        /\ \E i \in At("request", Req(p, proc[p].stage)) :
           \E j \in At("grant", Req(p, proc[p].stage)) : log[j].t > log[i].t

\* env.run() has returned with nothing held, nobody waiting and one record
\* for each of the patients 0 .. num_patients - 1
Drained ==
    /\ phase = "running"
    /\ queue = {}
    /\ \A r \in Resources : users[r] = <<>> /\ put_queue[r] = <<>>
    /\ Len(stats) = num_patients
    /\ \A p \in 0..(num_patients - 1) :
           Cardinality({i \in 1..Len(stats) : stats[i].id = p}) = 1

(* C4: every run reaches the state in which no event is pending, no        *)
(* resource is held or waited for and the statistics hold exactly one      *)
(* record for each patient; once no event is pending the clock does not    *)
(* advance.                                                                *)
RunTerminates ==
    /\ (phase = "running") ~> Drained
    /\ [][queue = {} => now' <= now]_vars

\* a run of three patients has drained after one of them had to queue
DrainedAfterQueueing ==
    /\ Drained
    /\ num_patients = 3
    /\ \E i \in 1..Len(log) : \E j \in 1..Len(log) :
          /\ log[i].op = "request" /\ log[j].op = "grant"
          /\ RqOf(log[i]) = RqOf(log[j])
          /\ log[j].t > log[i].t

(* C5: a patient holds at most one unit over all resources, waits in no    *)
(* queue while it holds one, and has released every unit it was granted    *)
(* before it issues a request.                                             *)
HoldsAtMostOne ==
    \A p \in DOMAIN proc :
        /\ Cardinality(Held(p)) + Cardinality(Waiting(p)) <= 1
        /\ \A j \in 1..Len(log) :
              (log[j].op = "request" /\ log[j].who = p) =>
                  Cardinality({i \in 1..j : log[i].op = "grant" /\ log[i].who = p})
                      = Cardinality({i \in 1..j : log[i].op = "release" /\ log[i].who = p})

\* a patient that has held and released the registration desk and a ward
\* waits in the queue of a third resource
WaitsAfterTwoReleases ==
    \E p \in DOMAIN proc :
        /\ Waiting(p) # {}
        /\ Cardinality({i \in 1..Len(log) : log[i].op = "release" /\ log[i].who = p}) >= 2

\* the sequence of acquisitions the types are said to make with ward w
Route(patient_type, w) ==
    CASE patient_type = 1 -> <<"registration", w, "x_ray", w>>
      [] patient_type = 2 -> <<"registration", w, "plaster">>
      [] patient_type = 3 -> <<"registration", w, "x_ray", "plaster", "x_ray", w>>
      [] patient_type = 4 -> <<"registration", w>>

(* C6: what a patient has acquired is at every moment the beginning of the *)
(* route of its type through its one assigned ward (only the registration  *)
(* desk while no ward is assigned), and the whole route once it has left.  *)
FollowsRoute ==
    \A p \in DOMAIN proc :
        LET w == proc[p].casualty_ward
            a == Acquired(p)
        IN  IF w = "none"
            THEN a \in {<<>>, <<"registration">>} /\ proc[p].pc # "done"
            ELSE /\ w \in {"cw1", "cw2"}
                 /\ IsPrefix(a, Route(proc[p].patient_type, w))
                 /\ proc[p].pc = "done" => a = Route(proc[p].patient_type, w)

\* patients of type 1 and of type 3 have left, one through each ward
BothReturnRoutesTaken ==
    \E p \in DOMAIN proc : \E q \in DOMAIN proc :
        /\ proc[p].pc = "done" /\ proc[p].patient_type = 1
        /\ proc[q].pc = "done" /\ proc[q].patient_type = 3
        /\ proc[p].casualty_ward # proc[q].casualty_ward

\* the positions of the log where patient p leaves the registration desk
LeftRegistration(p) == At("release", Req(p, "registration"))

\* the positions of the log where patient p asks for its ward the first time
AskedWard(p) == At("request", Req(p, "cw"))

(* C7: below time 30 (300 ticks) no ward is requested or held; a patient   *)
(* that leaves the registration desk at t < 30 requests its ward at        *)
(* exactly 30, one that leaves it at t >= 30 requests its ward at t.       *)
WardOnlyFromThreshold ==
    /\ now < 300 =>
          \A r \in {"cw1", "cw2"} : users[r] = <<>> /\ put_queue[r] = <<>>
    /\ \A i \in 1..Len(log) : log[i].res \in {"cw1", "cw2"} => log[i].t >= 300
    /\ \A p \in DOMAIN proc : \A i \in LeftRegistration(p) :
          /\ \A j \in AskedWard(p) :
                log[j].t = IF log[i].t < 300 THEN 300 ELSE log[i].t
          /\ (log[i].t >= 300 \/ now > 300) => AskedWard(p) # {}

\* one patient left the desk before 30 and one after, and both have asked
\* for their wards
EarlyAndLateWardRequests ==
    \E p \in DOMAIN proc : \E q \in DOMAIN proc :
        /\ \E i \in LeftRegistration(p) : log[i].t < 300 /\ log[i].t > 0
        /\ \E i \in LeftRegistration(q) : log[i].t > 300
        /\ AskedWard(p) # {}
        /\ AskedWard(q) # {}

(* C8: two runs from the same seed with the same patient count take the    *)
(* same decisions and give the same records in the same order and the same *)
(* summary: the two calls of the driver end with equal logs, equal         *)
(* statistics and equal rows.                                              *)
RunsIdentical ==
    Len(past) = 2 => past[1] = past[2] /\ csv[1] = csv[2]

\* the driver has made both calls for three patients, one of whom queued
TwoContendedRuns ==
    /\ Len(past) = 2
    /\ Len(past[2].stats) = 3
    /\ \E i \in 1..Len(past[2].log) : \E j \in 1..Len(past[2].log) :
          /\ past[2].log[i].op = "request" /\ past[2].log[j].op = "grant"
          /\ RqOf(past[2].log[i]) = RqOf(past[2].log[j])
          /\ past[2].log[j].t > past[2].log[i].t

\* the pairs of positions of two requests of one timestamp on r, in order
SameTimeRequests(r) ==
    {<<a, b>> \in (1..Len(log)) \X (1..Len(log)) :
        /\ a < b
        /\ log[a].op = "request" /\ log[a].res = r
        /\ log[b].op = "request" /\ log[b].res = r
        /\ log[a].t = log[b].t}

(* C9: on the registration desk and the plaster room, of two requests made *)
(* at the same timestamp the second is granted only once the first has     *)
(* been released, at a timestamp not before that release.                  *)
SecondAfterFirstRelease ==
    \A r \in {"registration", "plaster"} : \A ab \in SameTimeRequests(r) :
        \A g \in At("grant", RqOf(log[ab[2]])) :
            \E l \in At("release", RqOf(log[ab[1]])) :
                l < g /\ log[l].t <= log[g].t

\* two requests of one timestamp on the plaster room, the second granted
SimultaneousPlasterServed ==
    \E ab \in SameTimeRequests("plaster") : At("grant", RqOf(log[ab[2]])) # {}

(* C10: summarizing the statistics of a run with no patient reports a      *)
(* degenerate-input error and does not end in a division by zero.          *)
ZeroPatientsReported ==
    (num_patients = 0 /\ phase \notin {"idle", "running"}) =>
        error \notin {"none", "ZeroDivisionError"}

---------------------------------------------------------------------------
\* the time request rq held its unit, once it has released it
Duration(rq) ==
    LET g == CHOOSE i \in At("grant", rq) : TRUE
        l == CHOOSE i \in At("release", rq) : TRUE
    IN  log[l].t - log[g].t

\* the only patient of the run is of type 4, arrived at time 0 and has left
SoloRecorded ==
    /\ num_patients = 1
    /\ Len(stats) = 1
    /\ proc[0].patient_type = 4
    /\ proc[0].arrival_time = 0

\* the registration time is within 0.2 .. 1.0 and the ward time within
\* 1.5 .. 5.0 in ward 1, within 2.8 .. 6.3 in ward 2
SoloDurationsInBounds ==
    /\ Duration(Req(0, "registration")) \in 2..10
    /\ Duration(Req(0, "cw")) \in
           IF proc[0].casualty_ward = "cw1" THEN 15..50 ELSE 28..63

(* C11 as stated: the total time of a single patient of type 4 that        *)
(* arrives at time 0 is at least 30 plus its registration time plus its    *)
(* ward time, both times within their bounds.                              *)
SoloTotalAddsRegistration ==
    SoloRecorded =>
        /\ SoloDurationsInBounds
        /\ stats[1].total_time >=
               300 + Duration(Req(0, "registration")) + Duration(Req(0, "cw"))

(* C11 amended: the total time of a single patient of type 4 that arrives  *)
(* at time 0 is exactly 30 plus its ward time; its registration time lies  *)
(* within the wait until 30 and adds nothing; both times are within their  *)
(* bounds.                                                                 *)
SoloTotalIsThresholdPlusWard ==
    SoloRecorded =>
        /\ SoloDurationsInBounds
        /\ stats[1].total_time = 300 + Duration(Req(0, "cw"))

\* the single patient went through ward 2 after a registration longer than
\* the minimum
SoloThroughWardTwo ==
    /\ SoloRecorded
    /\ proc[0].casualty_ward = "cw2"
    /\ Duration(Req(0, "registration")) > 2

---------------------------------------------------------------------------
\* the number of records of type t
CountOfType(t) == Cardinality({i \in 1..Len(stats) : stats[i].type = t})

\* the sum of the total times of the records of type t
TotalOfType(t) ==
    Sum([i \in 1..Len(stats) |-> IF stats[i].type = t THEN stats[i].total_time ELSE 0])

\* calc_statistics has been called on stats
Summarized == phase \in {"finished", "crashed"}

(* C12: for every collection of records calc_statistics gives each type    *)
(* 1..4 a count equal to the number of records of that type and a mean     *)
(* equal to the sum of their total times divided by that count, the mean 0 *)
(* with no division when the count is 0; the four counts add up to the     *)
(* number of records.                                                      *)
TypeMeansMatchRecords ==
    Summarized =>
        /\ \A t \in 1..4 :
              /\ results.types[t].count = CountOfType(t)
              /\ results.types[t].avg_time =
                     IF CountOfType(t) = 0 THEN Quotient(0, 1)
                     ELSE Quotient(TotalOfType(t), CountOfType(t))
        /\ Sum([t \in 1..4 |-> results.types[t].count]) = Len(stats)

\* a collection of three records: two of type 1 with different times, one
\* of type 4, none of type 3
TwoOfOneTypeSummarized ==
    /\ phase = "finished"
    /\ Len(stats) = 3
    /\ CountOfType(1) = 2 /\ TotalOfType(1) = 300
    /\ CountOfType(3) = 0 /\ CountOfType(4) = 1

---------------------------------------------------------------------------
\* the total times of the records
AllTimes == [i \in 1..Len(stats) |-> stats[i].total_time]

(* C13: the standard deviation is the sample standard deviation: the       *)
(* variance it is the square root of, times n - 1, is the sum of the       *)
(* squared deviations of the total times from the overall mean (n times    *)
(* that sum is n * sum of squares - square of the sum); for the total      *)
(* times 10, 20, 30 the mean is 20 and the standard deviation is 10.       *)
SampleStandardDeviation ==
    phase = "finished" =>
        LET n == Len(stats)
            total == Sum(AllTimes)
            squares == Sum([i \in 1..n |-> AllTimes[i] * AllTimes[i]])
            mean == results.overall_avg_time
            v == results.variance
            sd == results.standard_deviation
        IN  /\ mean.num * n = total * mean.den
            /\ v.num * (n - 1) * n = v.den * (n * squares - total * total)
            /\ sd * sd * v.den <= v.num
            /\ v.num < (sd + 1) * (sd + 1) * v.den
            /\ (n = 3 /\ {AllTimes[i] : i \in 1..n} = {100, 200, 300}) =>
                   mean.num = 200 * mean.den /\ sd = 100

\* the total times 30, 10, 20 have been summarized
TenTwentyThirtySummarized ==
    /\ phase = "finished"
    /\ AllTimes = <<300, 100, 200>>
    /\ results.standard_deviation = 100

---------------------------------------------------------------------------
\* the events the step has popped
Popped == queue \ queue'

\* the events that were pending at the step and still are
StillPending == queue \cap queue'

(* C14: the clock never goes back: no pending event is scheduled before    *)
(* the clock, every step leaves the clock where it was or later, and the   *)
(* event a step pops is resumed at exactly the time it was scheduled for.  *)
ClockNeverGoesBack ==
    /\ [](\A e \in queue : e.time >= now)
    /\ [][now' >= now /\ \A e \in Popped : now' = e.time]_vars

\* past time 30, with an event pending at the clock and one pending later
PendingNowAndLater ==
    /\ now > 300
    /\ \E e \in queue : e.time = now
    /\ \E e \in queue : e.time > now

---------------------------------------------------------------------------
---------------------------------------------------------------------------
\* the positions of the requests on r that wait at position l of the log
WaitingAt(r, l) ==
    {i \in 1..(l - 1) :
        /\ log[i].op = "request" /\ log[i].res = r
        /\ \A g \in At("grant", RqOf(log[i])) : g > l}

\* the request at the head of the wait queue at position l of the log
HeadAt(r, l) ==
    RqOf(log[CHOOSE i \in WaitingAt(r, l) : \A j \in WaitingAt(r, l) : i <= j])

\* the positions of the releases made while a request waited
ContendedReleases ==
    {l \in 1..Len(log) : log[l].op = "release" /\ WaitingAt(log[l].res, l) # {}}

(* C16: when a unit is released while requests wait, the head of the wait  *)
(* queue is granted a unit at the timestamp of the release: it has been    *)
(* granted once the clock has moved on or the run has ended, and never at  *)
(* another timestamp; the clock does not advance while a resource has a    *)
(* free unit and a waiting request.                                        *)
ReleaseServesHead ==
    /\ [](\A l \in ContendedReleases :
             LET gs == At("grant", HeadAt(log[l].res, l))
             IN  /\ \A g \in gs : log[g].t = log[l].t
                 /\ (now > log[l].t \/ queue = {}) => gs # {})
    /\ [][(\E r \in Resources :
               Len(users[r]) < capacity[r] /\ put_queue[r] # <<>>) => now' = now]_vars

\* a unit was released while two requests waited, and the clock has moved on
HeadOfTwoServed ==
    \E l \in ContendedReleases :
        /\ Cardinality(WaitingAt(log[l].res, l)) = 2
        /\ now > log[l].t

---------------------------------------------------------------------------
\* the interarrival times drawn and the patients spawned, in order
Gaps == SelectSeq(log, LAMBDA e : e.op = "gap")
Spawns == SelectSeq(log, LAMBDA e : e.op = "spawn")

(* C17: the generator spawns the patients 0 .. N - 1 in turn and then      *)
(* ends, at the latest when the run ends; patient i is spawned at the sum  *)
(* of the interarrival times drawn up to it, whatever the earlier patients *)
(* are doing, and the arrival time it records is the time of its spawn.    *)
GeneratorNeverWaits ==
    /\ Len(Spawns) = gen.i
    /\ gen.i <= num_patients
    /\ DOMAIN proc = 0..(gen.i - 1)
    /\ gen.pc = "done" => gen.i = num_patients
    /\ (phase = "running" /\ queue = {}) => gen.pc = "done"
    /\ \A k \in 1..Len(Spawns) :
          /\ Spawns[k].who = k - 1
          /\ Len(Gaps) >= k
          /\ Spawns[k].t = Sum([j \in 1..k |-> Gaps[j].t])
    /\ \A p \in DOMAIN proc :
          proc[p].pc # "start" => proc[p].arrival_time = Spawns[p + 1].t

\* a patient arrives, later than time 0, while an earlier patient holds a
\* unit
ArrivalDuringService ==
    \E p \in DOMAIN proc : \E q \in DOMAIN proc :
        /\ q < p
        /\ proc[p].pc = "req" /\ proc[p].stage = "registration"
        /\ proc[p].arrival_time = now /\ now > 0
        /\ Held(q) # {}

---------------------------------------------------------------------------
\* the time patient p left its last with-block
Departure(p) ==
    LET ls == {i \in 1..Len(log) : log[i].op = "release" /\ log[i].who = p}
    IN  log[CHOOSE i \in ls : \A j \in ls : j <= i].t

(* C18: the records are in the order in which the patients left: departure *)
(* times do not decrease along the collection; the total time of a record  *)
(* is the patient's departure time minus its arrival time and is not       *)
(* negative; a record, once appended, is never changed or removed.         *)
RecordsInCompletionOrder ==
    /\ [](\A i \in 1..Len(stats) :
             /\ stats[i].total_time =
                    Departure(stats[i].id) - proc[stats[i].id].arrival_time
             /\ stats[i].total_time >= 0
             /\ \A j \in 1..(i - 1) :
                    Departure(stats[j].id) <= Departure(stats[i].id))
    /\ [][IsPrefix(stats, stats')]_vars

\* the first record is that of a patient who arrived after the patient of
\* the second record
LaterArrivalRecordedFirst ==
    /\ Len(stats) >= 2
    /\ stats[1].id > stats[2].id
    /\ proc[stats[1].id].arrival_time > proc[stats[2].id].arrival_time

---------------------------------------------------------------------------
(* C19: no release finds its resource without the releasing request:       *)
(* every release is of a request granted before and not released before,   *)
(* the holders of a resource are as many as its grants less its releases   *)
(* (never fewer than none), and a patient that has left has released every *)
(* unit it was granted.                                                    *)
ReleasesMatchGrants ==
    /\ \A l \in 1..Len(log) :
          log[l].op = "release" =>
              /\ \E g \in At("grant", RqOf(log[l])) : g < l
              /\ At("release", RqOf(log[l])) = {l}
    /\ \A r \in Resources :
          /\ Len(Ops("grant", r)) >= Len(Ops("release", r))
          /\ Len(users[r]) = Len(Ops("grant", r)) - Len(Ops("release", r))
    /\ \A p \in DOMAIN proc :
          proc[p].pc = "done" =>
              \A i \in 1..Len(log) :
                  (log[i].op = "grant" /\ log[i].who = p) =>
                      At("release", RqOf(log[i])) # {}

\* a patient of type 3 has left after six grants and six releases
SixUnitsReleased ==
    \E p \in DOMAIN proc :
        /\ proc[p].pc = "done"
        /\ Cardinality({i \in 1..Len(log) : log[i].op = "release" /\ log[i].who = p}) = 6

---------------------------------------------------------------------------
(* C20: in a run of one patient or more the statistics step ends without   *)
(* an error and gives an overall mean and a standard deviation.            *)
StatisticsFromOnePatient ==
    (num_patients >= 1 /\ phase \notin {"idle", "running"}) =>
        error = "none" /\ phase = "finished" /\ Len(csv) = 1

====
